---------------------------- MODULE Spec2Model ----------------------------
(***************************************************************************)
(* Round-based concurrent dispatch engine of the logistics client          *)
(* (ServiceInstance.Run / ServiceInstance.processDelivery).                *)
(*                                                                         *)
(* The main goroutine runs the round loop; every Pending unit gets one     *)
(* processDelivery goroutine per round; a third goroutine handles the      *)
(* termination signal.  The world operator (routing, warehouse lookup) and *)
(* the statistics counters live in packages whose code is not part of the  *)
(* sources at hand; they are modelled from their documented interface.     *)
(***************************************************************************)
EXTENDS Integers, Sequences, FiniteSets, TLC

VARIABLES
    warehouses,         \* world model: sequence of warehouse coordinates
    coord,              \* world model: unit.Coordinate, one per delivery unit
    Metadata,           \* unit.Metadata, TRUE = Arrived
    statistics,         \* s.statistics.Operation: MoveUnit, UnitReachedWarehouse
    maxMoveWaitNumber,  \* s.maxMoveWaitNumber, the shared pacing ceiling
    runPc,              \* Run at: "check" "spawn" "wait" "report" "returned"
    spawnIdx,           \* index of the fan-out loop of Run
    wg,                 \* counter of the round's sync.WaitGroup
    tpc,                \* position of each unit's processDelivery goroutine
    loaded,             \* per task: the value of the ceiling it last loaded
    oldCoordinate,      \* per task: local oldCoordinate
    newCoordinate,      \* per task: local newCoordinate
    hpc,                \* position of the signal-handler goroutine
    cancelled,          \* s.ctx has been cancelled
    disconnects,        \* number of calls of logisticsClient.Disconnect
    exited,             \* os.Exit has been called
    reported,           \* the statistics report has been rendered
    faults,             \* transport: calls that may still be made to fail
    round,              \* history: number of rounds started
    taskRound,          \* history: the round each running task was spawned in
    spawned,            \* history: tasks started per unit in the current round
    trace,              \* history: per unit attempts, errors, arrival round
    pendingAtSignal     \* history: Pending units when the signal was delivered

vars == <<warehouses, coord, Metadata, statistics, maxMoveWaitNumber, runPc,
          spawnIdx, wg, tpc, loaded, oldCoordinate, newCoordinate, hpc,
          cancelled, disconnects, exited, reported, faults,
          round, taskRound, spawned, trace, pendingAtSignal>>

-----------------------------------------------------------------------------
(* Bounds of the model *)

NumUnits == 2   \* delivery units of the explored worlds
MaxFail == 1    \* injected transport failures of a run
RoundSlack == 0 \* rounds explored beyond the longest failure-free run

(* Program constants *)

InitialMoveWait == 100  \* maxMoveWaitNumber: 100

-----------------------------------------------------------------------------
(* World model: coordinates, routing, lookup *)

Coordinate(x, y) == [X |-> x, Y |-> y]

NoCoordinate == [X |-> -1, Y |-> -1]

Abs(n) == IF n < 0 THEN -n ELSE n

Distance(a, b) == Abs(a.X - b.X) + Abs(a.Y - b.Y)

\* The two warehouses of the explored worlds.
WorldWarehouses == <<Coordinate(0, 0), Coordinate(6, 1)>>

\* Start coordinates of the explored worlds: at a warehouse, and one step
\* from one.
StartCoordinates == {Coordinate(0, 0), Coordinate(5, 1)}

\* The three-unit scenario: U1, U2 and U3 start 1, 2 and 3 steps from their
\* nearest warehouse.
ScenarioUnits == <<Coordinate(5, 1), Coordinate(1, 1), Coordinate(2, 1)>>

\* Index of the warehouse nearest to c (lowest index on a tie), 0 if none.
NearestWarehouse(ws, c) ==
    IF Len(ws) = 0 THEN 0
    ELSE CHOOSE i \in 1..Len(ws) :
            \A j \in 1..Len(ws) :
                \/ Distance(c, ws[i]) < Distance(c, ws[j])
                \/ Distance(c, ws[i]) = Distance(c, ws[j]) /\ i <= j

\* One step from c towards w: along X first, then along Y.
StepTowards(c, w) ==
    IF c.X < w.X THEN Coordinate(c.X + 1, c.Y)
    ELSE IF c.X > w.X THEN Coordinate(c.X - 1, c.Y)
    ELSE IF c.Y < w.Y THEN Coordinate(c.X, c.Y + 1)
    ELSE IF c.Y > w.Y THEN Coordinate(c.X, c.Y - 1)
    ELSE c

\* worldOperator.MoveDeliveryUnitToNearestWarehouse: the coordinate the unit
\* at c has after the call.
MoveDeliveryUnitToNearestWarehouse(ws, c) ==
    IF NearestWarehouse(ws, c) = 0 THEN c
    ELSE StepTowards(c, ws[NearestWarehouse(ws, c)])

\* worldOperator.FindEntityByCoordinate(c, model.Warehouses): the index of a
\* warehouse at c, 0 for nil.
FindEntityByCoordinate(ws, c) ==
    IF \E i \in 1..Len(ws) : ws[i] = c
    THEN CHOOSE i \in 1..Len(ws) : ws[i] = c
    ELSE 0

\* Steps between c and its nearest warehouse.
StepsToWarehouse(ws, c) ==
    IF NearestWarehouse(ws, c) = 0 THEN 0
    ELSE Distance(c, ws[NearestWarehouse(ws, c)])

-----------------------------------------------------------------------------
(* Statistics counters *)

MoveUnitOp == 1
UnitReachedWarehouseOp == 2

\* Operation.AddA: one more attempt of operation op.
AddA(st, op) == [st EXCEPT ![op].A = @ + 1]

\* Operation.AddB: one more error of operation op.
AddB(st, op) == [st EXCEPT ![op].B = @ + 1]

-----------------------------------------------------------------------------
(* Derived state *)

Units == DOMAIN coord

totalDeliveryUnits == Len(coord)

\* Run's count of the units whose Metadata is true.
unitsReachedObjective == Cardinality({u \in Units : Metadata[u]})

AllIdle == \A u \in Units : tpc[u] = "idle"

Max(S) == CHOOSE n \in S : \A m \in S : m <= n

\* Rounds explored: those of the failure-free run of the world (its longest
\* route, and the round that reports the arrival), one more per injected
\* failure, plus the slack.
MaxRound ==
    Max({trace[u].startSteps : u \in Units}) + 1 + MaxFail + RoundSlack


-----------------------------------------------------------------------------
(* Initial states *)

NoTrace(ws, c) ==
    [moveAtt |-> 0, moveErr |-> 0, reachAtt |-> 0, reachErr |-> 0,
     arrivedRound |-> 0, startSteps |-> StepsToWarehouse(ws, c)]

\* The state NewServiceInstance leaves, for a populated world and a
\* transport that can be made to fail f calls.
InitWith(ws, cs, f) ==
    /\ warehouses = ws
    /\ coord = cs
    /\ Metadata = [u \in DOMAIN cs |-> FALSE]
    /\ statistics = <<[Name |-> "MoveUnit", A |-> 0, B |-> 0],
                      [Name |-> "UnitReachedWarehouse", A |-> 0, B |-> 0]>>
    /\ maxMoveWaitNumber = InitialMoveWait
    /\ runPc = "check"
    /\ spawnIdx = 1
    /\ wg = 0
    /\ tpc = [u \in DOMAIN cs |-> "idle"]
    /\ loaded = [u \in DOMAIN cs |-> 0]
    /\ oldCoordinate = [u \in DOMAIN cs |-> NoCoordinate]
    /\ newCoordinate = [u \in DOMAIN cs |-> NoCoordinate]
    /\ hpc = "waiting"
    /\ cancelled = FALSE
    /\ disconnects = 0
    /\ exited = FALSE
    /\ reported = FALSE
    /\ faults = f
    /\ round = 0
    /\ taskRound = [u \in DOMAIN cs |-> 0]
    /\ spawned = [u \in DOMAIN cs |-> 0]
    /\ trace = [u \in DOMAIN cs |-> NoTrace(ws, cs[u])]
    /\ pendingAtSignal = 0

\* The explored worlds: NumUnits units, each at one of the start coordinates.
Worlds == [1..NumUnits -> StartCoordinates]

\* Worlds of one warehouse, and of both.
WarehouseWorlds ==
    {SubSeq(WorldWarehouses, 1, m) : m \in 1..Len(WorldWarehouses)}

\* Worlds of one unit, and of up to NumUnits units.
UnitWorlds == UNION {[1..n -> StartCoordinates] : n \in 1..NumUnits}

\* Any explored world, a transport that may fail MaxFail calls.
Init == \E cs \in Worlds : InitWith(WorldWarehouses, cs, MaxFail)

\* Any explored world, a transport that never fails.
InitReliable ==
    \E ws \in WarehouseWorlds, cs \in UnitWorlds : InitWith(ws, cs, 0)

\* U1, the unit of the scenario whose arrival report is made to fail.
FailedUnit ==
    CHOOSE u \in DOMAIN ScenarioUnits :
        StepsToWarehouse(WorldWarehouses, ScenarioUnits[u]) = 1

\* The three-unit scenario on a transport that never fails.
InitScenario == InitWith(WorldWarehouses, ScenarioUnits, 0)

\* The three-unit scenario with one call made to fail.
InitScenarioFail == InitWith(WorldWarehouses, ScenarioUnits, 1)

-----------------------------------------------------------------------------
(* Run: the round loop *)

\* Mutant: the convergence test is off by one.
ConvergenceOffByOne == unitsReachedObjective >= totalDeliveryUnits - 1

\* Run's convergence test: unitsReachedObjective == totalDeliveryUnits.
ConvergenceReached == unitsReachedObjective = totalDeliveryUnits

\* Mutant: the fan-out loop does not skip the arrived units.
StartsTaskAlways(u) == TRUE

\* Run's fan-out test: a task is started for a unit whose Metadata is not true.
StartsTask(u) == Metadata[u] # TRUE

\* Mutant: the round loop does not wait for the tasks of the round.
WaitSkipped == TRUE

\* wg.Wait() returns when the counter of the WaitGroup is zero.
WaitReturns == wg = 0

\* One iteration's convergence check: count the arrived units and leave the
\* loop when all have arrived, start the next round otherwise.
RunCheck ==
    /\ ~exited
    /\ runPc = "check"
    /\ IF ConvergenceReached
       THEN /\ runPc' = "report"
            /\ UNCHANGED <<spawnIdx, round, spawned>>
       ELSE /\ round < MaxRound
            /\ runPc' = "spawn"
            /\ spawnIdx' = 1
            /\ round' = round + 1
            /\ spawned' = [u \in Units |-> 0]
    /\ UNCHANGED <<warehouses, coord, Metadata, statistics, maxMoveWaitNumber,
                   wg, tpc, loaded, oldCoordinate, newCoordinate, hpc,
                   cancelled, disconnects, exited, reported, faults,
                   taskRound, trace, pendingAtSignal>>

\* One iteration of the fan-out loop: wg.Add(1) and go processDelivery for a
\* unit that has not arrived; after the last unit, on to wg.Wait().
RunSpawn ==
    /\ ~exited
    /\ runPc = "spawn"
    /\ IF spawnIdx > totalDeliveryUnits
       THEN /\ runPc' = "wait"
            /\ UNCHANGED <<spawnIdx, wg, tpc, taskRound, spawned>>
       ELSE /\ spawnIdx' = spawnIdx + 1
            /\ runPc' = runPc
            /\ IF StartsTask(spawnIdx)
               THEN /\ wg' = wg + 1
                    /\ tpc' = [tpc EXCEPT ![spawnIdx] = "sleep"]
                    /\ taskRound' = [taskRound EXCEPT ![spawnIdx] = round]
                    /\ spawned' = [spawned EXCEPT ![spawnIdx] = @ + 1]
               ELSE UNCHANGED <<wg, tpc, taskRound, spawned>>
    /\ UNCHANGED <<warehouses, coord, Metadata, statistics, maxMoveWaitNumber,
                   loaded, oldCoordinate, newCoordinate, hpc, cancelled,
                   disconnects, exited, reported, faults, round, trace,
                   pendingAtSignal>>

\* wg.Wait(): the barrier at the end of the round.
RunWait ==
    /\ ~exited
    /\ runPc = "wait"
    /\ WaitReturns
    /\ runPc' = "check"
    /\ UNCHANGED <<warehouses, coord, Metadata, statistics, maxMoveWaitNumber,
                   spawnIdx, wg, tpc, loaded, oldCoordinate, newCoordinate,
                   hpc, cancelled, disconnects, exited, reported, faults,
                   round, taskRound, spawned, trace, pendingAtSignal>>

\* After the loop: the rows of the report are added and the table printed.
RunReport ==
    /\ ~exited
    /\ runPc = "report"
    /\ reported' = TRUE
    /\ runPc' = "returned"
    /\ UNCHANGED <<warehouses, coord, Metadata, statistics, maxMoveWaitNumber,
                   spawnIdx, wg, tpc, loaded, oldCoordinate, newCoordinate,
                   hpc, cancelled, disconnects, exited, faults, round,
                   taskRound, spawned, trace, pendingAtSignal>>

RunStep == RunCheck \/ RunSpawn \/ RunWait \/ RunReport

-----------------------------------------------------------------------------
(* processDelivery: one task per Pending unit and round *)

\* rand.Intn(n) returns a value of 0..n-1; the draws explored are the
\* smallest and the largest one.
RandIntn(n) == {0, n - 1}

\* Mutant: the shift is left out.
ShiftRight1Skipped(v) == v

\* v >> 1 of a non-negative int.
ShiftRight1(v) == v \div 2

\* The deferred wg.Done() of a returning task; its locals are dropped.
TaskReturns(u) ==
    /\ tpc' = [tpc EXCEPT ![u] = "idle"]
    /\ wg' = wg - 1
    /\ loaded' = [loaded EXCEPT ![u] = 0]
    /\ oldCoordinate' = [oldCoordinate EXCEPT ![u] = NoCoordinate]
    /\ newCoordinate' = [newCoordinate EXCEPT ![u] = NoCoordinate]

\* time.Sleep(time.Duration(s.maxMoveWaitNumber) * time.Microsecond), whose
\* duration changes no state, and, once the task wakes up, the load of the
\* right-hand side of
\* s.maxMoveWaitNumber = rand.Intn(s.maxMoveWaitNumber+1) + 1
\* (the field is not synchronized: load and store are two steps).
SleepRandLoad(u) ==
    /\ ~exited
    /\ tpc[u] = "sleep"
    /\ loaded' = [loaded EXCEPT ![u] = maxMoveWaitNumber]
    /\ tpc' = [tpc EXCEPT ![u] = "store"]
    /\ UNCHANGED <<warehouses, coord, Metadata, statistics, maxMoveWaitNumber,
                   runPc, spawnIdx, wg, oldCoordinate, newCoordinate, hpc,
                   cancelled, disconnects, exited, reported, faults, round,
                   taskRound, spawned, trace, pendingAtSignal>>

\* ... and the store of the drawn value.
RandStore(u) ==
    /\ ~exited
    /\ tpc[u] = "store"
    /\ \E r \in RandIntn(loaded[u] + 1) : maxMoveWaitNumber' = r + 1
    /\ tpc' = [tpc EXCEPT ![u] = "test"]
    /\ UNCHANGED <<warehouses, coord, Metadata, statistics, runPc, spawnIdx,
                   wg, loaded, oldCoordinate, newCoordinate, hpc, cancelled,
                   disconnects, exited, reported, faults, round, taskRound,
                   spawned, trace, pendingAtSignal>>

\* if s.maxMoveWaitNumber >= 1
HalveTest(u) ==
    /\ ~exited
    /\ tpc[u] = "test"
    /\ tpc' = [tpc EXCEPT ![u] =
                 IF maxMoveWaitNumber >= 1 THEN "load" ELSE "route"]
    /\ UNCHANGED <<warehouses, coord, Metadata, statistics, maxMoveWaitNumber,
                   runPc, spawnIdx, wg, loaded, oldCoordinate, newCoordinate,
                   hpc, cancelled, disconnects, exited, reported, faults,
                   round, taskRound, spawned, trace, pendingAtSignal>>

\* s.maxMoveWaitNumber = s.maxMoveWaitNumber >> 1, the load ...
HalveLoad(u) ==
    /\ ~exited
    /\ tpc[u] = "load"
    /\ loaded' = [loaded EXCEPT ![u] = maxMoveWaitNumber]
    /\ tpc' = [tpc EXCEPT ![u] = "shift"]
    /\ UNCHANGED <<warehouses, coord, Metadata, statistics, maxMoveWaitNumber,
                   runPc, spawnIdx, wg, oldCoordinate, newCoordinate, hpc,
                   cancelled, disconnects, exited, reported, faults, round,
                   taskRound, spawned, trace, pendingAtSignal>>

\* ... and the store.
HalveStore(u) ==
    /\ ~exited
    /\ tpc[u] = "shift"
    /\ maxMoveWaitNumber' = ShiftRight1(loaded[u])
    /\ loaded' = [loaded EXCEPT ![u] = 0]
    /\ tpc' = [tpc EXCEPT ![u] = "route"]
    /\ UNCHANGED <<warehouses, coord, Metadata, statistics, runPc, spawnIdx,
                   wg, oldCoordinate, newCoordinate, hpc, cancelled,
                   disconnects, exited, reported, faults, round, taskRound,
                   spawned, trace, pendingAtSignal>>

\* oldCoordinate := *unit.Coordinate; the world operator moves the unit;
\* Operation[0].AddA(); the MoveUnit call is sent.
MoveUnitCall(u) ==
    /\ ~exited
    /\ tpc[u] = "route"
    /\ oldCoordinate' = [oldCoordinate EXCEPT ![u] = coord[u]]
    /\ newCoordinate' = [newCoordinate EXCEPT ![u] =
                           MoveDeliveryUnitToNearestWarehouse(warehouses, coord[u])]
    /\ coord' = [coord EXCEPT ![u] =
                   MoveDeliveryUnitToNearestWarehouse(warehouses, coord[u])]
    /\ statistics' = AddA(statistics, MoveUnitOp)
    /\ trace' = [trace EXCEPT ![u].moveAtt = @ + 1]
    /\ tpc' = [tpc EXCEPT ![u] = "moveRpc"]
    /\ UNCHANGED <<warehouses, Metadata, maxMoveWaitNumber, runPc, spawnIdx,
                   wg, loaded, hpc, cancelled, disconnects, exited, reported,
                   faults, round, taskRound, spawned, pendingAtSignal>>

\* Mutant: the error of a failed MoveUnit is counted for the other operation.
MoveErrorOpSwapped == UnitReachedWarehouseOp

\* The counter the error of a failed MoveUnit is added to: Operation[0].
MoveErrorOp == MoveUnitOp

\* Mutant: the error of a failed UnitReachedWarehouse is counted for the
\* other operation.
ReachErrorOpSwapped == MoveUnitOp

\* The counter the error of a failed UnitReachedWarehouse is added to:
\* Operation[1].
ReachErrorOp == UnitReachedWarehouseOp

\* Mutant: the task does not return after a failed report and marks the unit.
MetadataAfterNoReturn(m, failed) == TRUE

\* unit.Metadata after the UnitReachedWarehouse call of a task whose unit has
\* Metadata m: unchanged when the call failed (the task returns), true
\* otherwise.
MetadataAfter(m, failed) == IF failed THEN m ELSE TRUE

\* Mutant: a failed MoveUnit takes the unit back to its prior coordinate.
CoordinateRolledBack(old, new) == old

\* unit.Coordinate after a failed MoveUnit, old and new being the coordinates
\* before and after the world operator moved the unit: the error branch does
\* not touch it.
CoordinateAfterFailedMove(old, new) == new

\* MoveUnit returned an error (an injected failure, or the context is
\* cancelled): Operation[0].AddB() and return.
MoveUnitFailed(u) ==
    /\ ~exited
    /\ tpc[u] = "moveRpc"
    /\ cancelled \/ faults > 0
    /\ faults' = IF cancelled THEN faults ELSE faults - 1
    /\ statistics' = AddB(statistics, MoveErrorOp)
    /\ trace' = [trace EXCEPT ![u].moveErr = @ + 1]
    /\ coord' = [coord EXCEPT ![u] =
                   CoordinateAfterFailedMove(oldCoordinate[u], @)]
    /\ TaskReturns(u)
    /\ UNCHANGED <<warehouses, Metadata, maxMoveWaitNumber, runPc,
                   spawnIdx, hpc, cancelled, disconnects, exited, reported,
                   round, taskRound, spawned, pendingAtSignal>>

\* Mutant: the comparison of the coordinates is inverted, a unit that did not
\* move is taken for one that moved.
AfterMoveInverted(old, new, ws) ==
    IF new = old THEN "moved"
    ELSE IF FindEntityByCoordinate(ws, new) = 0 THEN "lost"
    ELSE "reached"

\* Mutant: the arrival is detected by the warehouse at the new coordinate,
\* whether or not the unit moved in this round.
AfterMoveByWarehouse(old, new, ws) ==
    IF FindEntityByCoordinate(ws, new) = 0 THEN "moved" ELSE "reached"

\* Mutant: the result of the warehouse lookup is not tested for nil.
AfterMoveNoLookup(old, new, ws) ==
    IF new # old THEN "moved" ELSE "reached"

\* The branch MoveUnitOk takes after a successful MoveUnit: "moved" when the
\* coordinate changed, "lost" when no warehouse is at the coordinate,
\* "reached" otherwise.
AfterMove(old, new, ws) ==
    IF new # old THEN "moved"
    ELSE IF FindEntityByCoordinate(ws, new) = 0 THEN "lost"
    ELSE "reached"

\* MoveUnit returned nil: return when the unit moved or no warehouse is at
\* its coordinate; else Operation[1].AddA() and the UnitReachedWarehouse
\* call is sent.
MoveUnitOk(u) ==
    /\ ~exited
    /\ tpc[u] = "moveRpc"
    /\ ~cancelled
    /\ IF AfterMove(oldCoordinate[u], newCoordinate[u], warehouses) = "reached"
       THEN /\ statistics' = AddA(statistics, UnitReachedWarehouseOp)
            /\ trace' = [trace EXCEPT ![u].reachAtt = @ + 1]
            /\ tpc' = [tpc EXCEPT ![u] = "reachRpc"]
            /\ UNCHANGED <<wg, loaded, oldCoordinate, newCoordinate>>
       ELSE /\ TaskReturns(u)
            /\ UNCHANGED <<statistics, trace>>
    /\ UNCHANGED <<warehouses, coord, Metadata, maxMoveWaitNumber, runPc,
                   spawnIdx, hpc, cancelled, disconnects, exited, reported,
                   faults, round, taskRound, spawned, pendingAtSignal>>

\* UnitReachedWarehouse returned an error: Operation[1].AddB() and return.
UnitReachedFailed(u) ==
    /\ ~exited
    /\ tpc[u] = "reachRpc"
    /\ cancelled \/ faults > 0
    /\ faults' = IF cancelled THEN faults ELSE faults - 1
    /\ statistics' = AddB(statistics, ReachErrorOp)
    /\ trace' = [trace EXCEPT ![u].reachErr = @ + 1]
    /\ Metadata' = [Metadata EXCEPT ![u] = MetadataAfter(@, TRUE)]
    /\ TaskReturns(u)
    /\ UNCHANGED <<warehouses, coord, maxMoveWaitNumber, runPc, spawnIdx, hpc,
                   cancelled, disconnects, exited, reported, round, taskRound,
                   spawned, pendingAtSignal>>

\* UnitReachedWarehouse returned nil: unit.Metadata = true and return.
UnitReachedOk(u) ==
    /\ ~exited
    /\ tpc[u] = "reachRpc"
    /\ ~cancelled
    /\ Metadata' = [Metadata EXCEPT ![u] = MetadataAfter(@, FALSE)]
    /\ trace' = [trace EXCEPT ![u].arrivedRound = round]
    /\ TaskReturns(u)
    /\ UNCHANGED <<warehouses, coord, statistics, maxMoveWaitNumber, runPc,
                   spawnIdx, hpc, cancelled, disconnects, exited, reported,
                   faults, round, taskRound, spawned, pendingAtSignal>>

\* The steps of a task on a transport that does not fail.
TaskStep(u) ==
    \/ SleepRandLoad(u)
    \/ RandStore(u)
    \/ HalveTest(u)
    \/ HalveLoad(u)
    \/ HalveStore(u)
    \/ MoveUnitCall(u)
    \/ MoveUnitOk(u)
    \/ UnitReachedOk(u)

-----------------------------------------------------------------------------
(* The signal handler goroutine *)

\* <-signals: an interrupt or SIGTERM is delivered while Run executes and
\* wakes the handler up.
SignalReceived ==
    /\ ~exited
    /\ hpc = "waiting"
    /\ runPc # "returned"
    /\ hpc' = "cancel"
    /\ pendingAtSignal' = totalDeliveryUnits - unitsReachedObjective
    /\ UNCHANGED <<warehouses, coord, Metadata, statistics, maxMoveWaitNumber,
                   runPc, spawnIdx, wg, tpc, loaded, oldCoordinate,
                   newCoordinate, cancelled, disconnects, exited, reported,
                   faults, round, taskRound, spawned, trace>>

\* s.ctxCancel()
HandlerCancel ==
    /\ ~exited
    /\ hpc = "cancel"
    /\ cancelled' = TRUE
    /\ hpc' = "disconnect"
    /\ UNCHANGED <<warehouses, coord, Metadata, statistics, maxMoveWaitNumber,
                   runPc, spawnIdx, wg, tpc, loaded, oldCoordinate,
                   newCoordinate, disconnects, exited, reported, faults,
                   round, taskRound, spawned, trace, pendingAtSignal>>

\* Mutant: the nil test is inverted and Disconnect is not called.
DisconnectSkipped(n) == n

\* if s.logisticsClient != nil { s.logisticsClient.Disconnect() }: the number
\* of Disconnect calls after the statement; the client is never nil here.
DisconnectCalls(n) == n + 1

\* The handler disconnects the client.
HandlerDisconnect ==
    /\ ~exited
    /\ hpc = "disconnect"
    /\ disconnects' = DisconnectCalls(disconnects)
    /\ hpc' = "exit"
    /\ UNCHANGED <<warehouses, coord, Metadata, statistics, maxMoveWaitNumber,
                   runPc, spawnIdx, wg, tpc, loaded, oldCoordinate,
                   newCoordinate, cancelled, exited, reported, faults, round,
                   taskRound, spawned, trace, pendingAtSignal>>

\* os.Exit(0)
HandlerExit ==
    /\ ~exited
    /\ hpc = "exit"
    /\ exited' = TRUE
    /\ hpc' = "exited"
    /\ UNCHANGED <<warehouses, coord, Metadata, statistics, maxMoveWaitNumber,
                   runPc, spawnIdx, wg, tpc, loaded, oldCoordinate,
                   newCoordinate, cancelled, disconnects, reported, faults,
                   round, taskRound, spawned, trace, pendingAtSignal>>

HandlerStep ==
    SignalReceived \/ HandlerCancel \/ HandlerDisconnect \/ HandlerExit

-----------------------------------------------------------------------------
(* Specifications *)

\* The program on a reliable transport, no signal delivered.
NextReliable == RunStep \/ \E u \in Units : TaskStep(u)

\* The program on a transport that can fail.
NextFailing ==
    \/ NextReliable
    \/ \E u \in Units : MoveUnitFailed(u)
    \/ \E u \in Units : UnitReachedFailed(u)

\* The whole program.
Next == NextFailing \/ HandlerStep

Spec == Init /\ [][Next]_vars

\* Every runnable goroutine is scheduled eventually.
ReliableSpec ==
    /\ InitReliable
    /\ [][NextReliable]_vars
    /\ WF_vars(RunStep)
    /\ WF_vars(\E u \in Units : TaskStep(u))

\* The three-unit scenario, reliable transport.
ScenarioSpec == InitScenario /\ [][NextReliable]_vars

\* The three-unit scenario, one UnitReachedWarehouse call of U1 made to fail.
NextScenarioFail == NextReliable \/ UnitReachedFailed(FailedUnit)

ScenarioFailSpec == InitScenarioFail /\ [][NextScenarioFail]_vars

-----------------------------------------------------------------------------
(* Properties *)

AllArrived == \A u \in Units : Metadata[u]

LoopLeft == runPc \in {"report", "returned"}

\* C1: on a reliable transport, in a world with at least one unit and one
\* warehouse, Run eventually leaves the round loop and returns, and every
\* unit is Arrived then.
C1_Convergence == <>(runPc = "returned" /\ AllArrived)

\* A run that needed more than one round has returned with all units Arrived.
C1_Witness ==
    /\ runPc = "returned"
    /\ AllArrived
    /\ round > 1
    /\ Len(warehouses) >= 1
    /\ totalDeliveryUnits >= 1

\* C2: the arrived count never exceeds the total count; Run is past the
\* round loop only with every unit Arrived; a convergence check leaves the
\* loop exactly when the arrived count equals the total count, and starts
\* another round exactly when it does not.
C2_LoopExit ==
    /\ [](/\ unitsReachedObjective <= totalDeliveryUnits
          /\ LoopLeft => unitsReachedObjective = totalDeliveryUnits)
    /\ [][runPc = "check" /\ runPc' # "check" =>
            IF unitsReachedObjective = totalDeliveryUnits
            THEN runPc' = "report" /\ round' = round
            ELSE runPc' = "spawn" /\ round' = round + 1]_vars

\* Run has left the loop after a round in which the last units arrived.
C2_Witness ==
    /\ runPc = "report"
    /\ round > 1
    /\ unitsReachedObjective = totalDeliveryUnits

\* C3: a running task belongs to the current round (no task of a later round
\* has been started beside it), and whenever Run is at a convergence check,
\* or past the loop, no task is running and the WaitGroup is back at zero.
C3_RoundBarrier ==
    /\ \A u \in Units : tpc[u] # "idle" => taskRound[u] = round
    /\ runPc \in {"check", "report", "returned"} => AllIdle /\ wg = 0
    /\ wg = Cardinality({u \in Units : tpc[u] # "idle"})

\* In the second round, two tasks run side by side at different positions.
C3_Witness ==
    /\ round = 2
    /\ \E u, v \in Units :
        /\ tpc[u] = "reachRpc"
        /\ tpc[v] \in {"store", "test", "load", "shift"}

\* C4: Metadata never goes back to Pending; an Arrived unit has no task and
\* no MoveUnit or UnitReachedWarehouse call is issued for it any more; a task
\* is started only for a Pending unit that has none, at most once per round;
\* and when the fan-out of a round is over, exactly the units Pending at the
\* start of the round have been given one task.
C4_ArrivedOnce ==
    /\ [](\A u \in Units :
            /\ Metadata[u] => tpc[u] = "idle"
            /\ spawned[u] <= 1
            /\ runPc = "wait" => spawned[u] = 1 \/ (spawned[u] = 0 /\ Metadata[u]))
    /\ [][\A u \in Units :
            /\ Metadata[u] => Metadata'[u]
            /\ Metadata[u] => /\ trace'[u].moveAtt = trace[u].moveAtt
                              /\ trace'[u].reachAtt = trace[u].reachAtt
            /\ spawned'[u] > spawned[u] => tpc[u] = "idle" /\ ~Metadata[u]
            /\ trace'[u].arrivedRound # trace[u].arrivedRound =>
                   ~Metadata[u] /\ Metadata'[u]]_vars

\* A later round runs a task for a Pending unit beside an Arrived one.
C4_Witness ==
    \E u, v \in Units :
        /\ Metadata[u] /\ spawned[u] = 0
        /\ ~Metadata[v] /\ spawned[v] = 1 /\ tpc[v] = "moveRpc"
        /\ runPc = "wait"

\* C5: for both operations Errors <= Attempts in every state, also in the
\* middle of a round, and neither count ever decreases.
C5_Counters ==
    /\ [](\A op \in DOMAIN statistics : statistics[op].B <= statistics[op].A)
    /\ [][\A op \in DOMAIN statistics :
            /\ statistics'[op].A >= statistics[op].A
            /\ statistics'[op].B >= statistics[op].B]_vars

\* In the middle of a round: one call has failed, two tasks are in flight,
\* one of them with its call under way.
C5_Witness ==
    /\ statistics[MoveUnitOp].B = 1
    /\ \E u, v \in Units :
        /\ u # v
        /\ tpc[u] = "moveRpc"
        /\ tpc[v] # "idle"

NoFailure(u) == trace[u].moveErr = 0 /\ trace[u].reachErr = 0

\* C6: a unit none of whose calls failed becomes Arrived in the round after
\* its last step, with one UnitReachedWarehouse attempt; a unit whose
\* UnitReachedWarehouse call failed exactly once and then succeeded (its
\* MoveUnit calls succeeding) becomes Arrived exactly one round later, with
\* two UnitReachedWarehouse attempts and one error.
C6_RetryOnFailure ==
    \A u \in Units :
        /\ Metadata[u] /\ NoFailure(u) =>
              /\ trace[u].arrivedRound = trace[u].startSteps + 1
              /\ trace[u].reachAtt = 1
        /\ Metadata[u] /\ trace[u].reachErr = 1 /\ trace[u].moveErr = 0 =>
              /\ trace[u].arrivedRound = (trace[u].startSteps + 1) + 1
              /\ trace[u].reachAtt = 2

\* A unit one step away has arrived after one failed arrival report.
C6_Witness ==
    \E u \in Units :
        /\ Metadata[u]
        /\ trace[u].startSteps = 1
        /\ trace[u].reachErr = 1
        /\ trace[u].moveErr = 0

\* Steps of the longest route of the three-unit scenario.
ScenarioSteps ==
    Max({StepsToWarehouse(WorldWarehouses, ScenarioUnits[u]) :
            u \in DOMAIN ScenarioUnits})

\* C7 as stated: in the three-unit scenario (1, 2 and 3 steps, reliable
\* transport) the loop is left after exactly 3 rounds, as many as the longest
\* route has steps.
C7_AsStated == LoopLeft => round = ScenarioSteps

\* C7 as amended: the loop is left after exactly 4 rounds, one more than the
\* longest route has steps, with all three units Arrived; the unit k steps
\* away arrives in round k + 1, the round after the one that brought it to
\* the warehouse.
C7_ScenarioRounds ==
    /\ LoopLeft => round = ScenarioSteps + 1 /\ AllArrived
    /\ \A u \in Units :
          Metadata[u] => trace[u].arrivedRound = trace[u].startSteps + 1
    /\ round <= ScenarioSteps + 1

\* The scenario has returned: 3 units, routes of 1, 2 and 3 steps, 2
\* warehouses, no call failed.
C7_Witness ==
    /\ runPc = "returned"
    /\ totalDeliveryUnits = Len(ScenarioUnits)
    /\ Len(warehouses) = Len(WorldWarehouses)
    /\ {trace[u].startSteps : u \in Units} = 1..ScenarioSteps
    /\ statistics[MoveUnitOp].B + statistics[UnitReachedWarehouseOp].B = 0

\* C8 as stated: with one UnitReachedWarehouse call of U1 made to fail, Run
\* takes one round more than the all-success run, and UnitReachedWarehouse
\* Errors is 1 at the end.
C8_AsStated ==
    LoopLeft /\ trace[FailedUnit].reachErr = 1 =>
        /\ round = (ScenarioSteps + 1) + 1
        /\ statistics[UnitReachedWarehouseOp].B = 1

\* C8 as amended: Run takes as many rounds as the all-success run: U1 arrives
\* one round later, in round 3, which is before U3 arrives in round 4; and
\* UnitReachedWarehouse Errors is 1 at the end.
C8_ForcedFailure ==
    LoopLeft /\ trace[FailedUnit].reachErr = 1 =>
        /\ round = ScenarioSteps + 1
        /\ trace[FailedUnit].arrivedRound = trace[FailedUnit].startSteps + 2
        /\ statistics[UnitReachedWarehouseOp].B = 1
        /\ AllArrived

\* The scenario has returned after the failed arrival report of U1.
C8_Witness ==
    /\ runPc = "returned"
    /\ trace[FailedUnit].reachErr = 1
    /\ trace[FailedUnit].reachAtt = 2

C10_OneReportPerUnit ==
    runPc = "returned" =>
        /\ statistics[UnitReachedWarehouseOp].A = totalDeliveryUnits
        /\ statistics[UnitReachedWarehouseOp].B = 0
        /\ statistics[MoveUnitOp].B = 0
        /\ \A u \in Units : trace[u].reachAtt = 1

\* Run has returned after more than one round, the units having arrived in
\* different rounds.
C10_Witness ==
    /\ runPc = "returned"
    /\ statistics[UnitReachedWarehouseOp].A = totalDeliveryUnits
    /\ \E u, v \in Units : trace[u].arrivedRound < trace[v].arrivedRound

-----------------------------------------------------------------------------
(* Movement attempts of the scenario *)

RECURSIVE SumOver(_, _)
SumOver(f, S) ==
    IF S = {} THEN 0
    ELSE LET x == CHOOSE y \in S : TRUE
         IN  f[x] + SumOver(f, S \ {x})

\* Steps of all routes of the three-unit scenario: 1 + 2 + 3.
ScenarioRouteSteps ==
    SumOver([u \in DOMAIN ScenarioUnits |->
                StepsToWarehouse(WorldWarehouses, ScenarioUnits[u])],
            DOMAIN ScenarioUnits)

\* C11 as stated: in the three-unit scenario MoveUnit Attempts never exceeds
\* 1 + 2 + 3 = 6, a round in which a unit does not change its coordinate
\* adding no attempt.
C11_AsStated == statistics[MoveUnitOp].A <= ScenarioRouteSteps

\* C11 as amended: every task counts one MoveUnit attempt, the task of the
\* round in which the unit no longer moves included: the unit k steps away
\* has k + 1 attempts when it is Arrived, and the final count is
\* (1 + 2 + 3) + 3 = 9, which is never exceeded.
C11_MoveAttempts ==
    /\ \A u \in Units :
          /\ tpc[u] \in {"moveRpc", "reachRpc"}
                /\ newCoordinate[u] = oldCoordinate[u] =>
                    trace[u].moveAtt = trace[u].startSteps + 1
          /\ Metadata[u] => trace[u].moveAtt = trace[u].startSteps + 1
    /\ LoopLeft =>
          statistics[MoveUnitOp].A = ScenarioRouteSteps + totalDeliveryUnits
    /\ statistics[MoveUnitOp].A <= ScenarioRouteSteps + totalDeliveryUnits

\* The scenario has returned; the last attempt was counted in a round in
\* which no unit changed its coordinate.
C11_Witness ==
    /\ runPc = "returned"
    /\ totalDeliveryUnits = Len(ScenarioUnits)
    /\ statistics[MoveUnitOp].A > ScenarioRouteSteps
    /\ statistics[MoveUnitOp].B = 0

-----------------------------------------------------------------------------
(* A unit whose arrival report fails on every attempt *)

\* The unit whose UnitReachedWarehouse calls all fail.
StuckUnit == 1

\* Rounds explored of the world cs (MaxRound, before the run).
RoundsOf(cs) ==
    Max({StepsToWarehouse(WorldWarehouses, cs[u]) : u \in DOMAIN cs})
        + 1 + MaxFail + RoundSlack

\* Any explored world; the transport can fail a call in every round.
InitStuck ==
    \E cs \in Worlds : InitWith(WorldWarehouses, cs, RoundsOf(cs))

\* The transport fails every UnitReachedWarehouse call of StuckUnit, and no
\* other call.
NextStuck ==
    \/ RunCheck
    \/ RunSpawn
    \/ RunWait
    \/ \E u \in Units :
          /\ ~(u = StuckUnit /\ tpc[u] = "reachRpc")
          /\ TaskStep(u)
    \/ UnitReachedFailed(StuckUnit)

StuckSpec == InitStuck /\ [][NextStuck]_vars

\* C12: while every arrival report of a unit fails, the unit stays Pending
\* and Run does not leave the round loop: every convergence check starts
\* another round, every round starts a task for the unit, and when a round
\* is over the unit has one MoveUnit attempt per round so far, and one failed
\* UnitReachedWarehouse attempt per round since it reached its warehouse.
C12_UnboundedRetry ==
    /\ ~Metadata[StuckUnit]
    /\ ~LoopLeft
    /\ runPc = "wait" => spawned[StuckUnit] = 1
    /\ runPc = "check" =>
          /\ trace[StuckUnit].moveAtt = round
          /\ trace[StuckUnit].moveErr = 0
          /\ trace[StuckUnit].reachAtt =
                IF round > trace[StuckUnit].startSteps
                THEN round - trace[StuckUnit].startSteps
                ELSE 0
          /\ trace[StuckUnit].reachErr = trace[StuckUnit].reachAtt
          /\ round < MaxRound => ENABLED RunCheck

\* Every other unit has arrived, and the unit whose reports fail has ended
\* three rounds at its warehouse with a failed report.
C12_Witness ==
    /\ runPc = "check"
    /\ \A u \in Units \ {StuckUnit} : Metadata[u]
    /\ round >= 3
    /\ trace[StuckUnit].reachErr = round - trace[StuckUnit].startSteps
    /\ FindEntityByCoordinate(warehouses, coord[StuckUnit]) # 0

-----------------------------------------------------------------------------
(* Failure of the movement report *)

\* C13: the step in which a MoveUnit call fails adds one to MoveUnit Errors,
\* ends the task, leaves the UnitReachedWarehouse counters and the unit's
\* Pending status alone and keeps the coordinate the world operator gave the
\* unit; so that every MoveUnit attempt, failed or not, has taken the unit
\* one step along its route, and the next task routes from where the unit is.
C13_MoveFailure ==
    /\ [](\A u \in Units :
            /\ StepsToWarehouse(warehouses, coord[u]) =
                  IF trace[u].moveAtt < trace[u].startSteps
                  THEN trace[u].startSteps - trace[u].moveAtt
                  ELSE 0
            /\ tpc[u] \in {"moveRpc", "reachRpc"} =>
                  /\ coord[u] = newCoordinate[u]
                  /\ newCoordinate[u] =
                        MoveDeliveryUnitToNearestWarehouse(warehouses,
                                                           oldCoordinate[u]))
    /\ [][\A u \in Units :
            trace'[u].moveErr # trace[u].moveErr =>
                /\ tpc[u] = "moveRpc" /\ tpc'[u] = "idle"
                /\ statistics'[MoveUnitOp].B = statistics[MoveUnitOp].B + 1
                /\ statistics'[MoveUnitOp].A = statistics[MoveUnitOp].A
                /\ statistics'[UnitReachedWarehouseOp] =
                      statistics[UnitReachedWarehouseOp]
                /\ ~Metadata[u] /\ ~Metadata'[u]
                /\ coord'[u] = newCoordinate[u]
                /\ wg' = wg - 1]_vars

\* The MoveUnit call that took a unit to its warehouse failed; the task of
\* the next round has routed from the warehouse's coordinate.
C13_Witness ==
    \E u \in Units :
        /\ trace[u].startSteps = 1
        /\ trace[u].moveErr = 1
        /\ trace[u].moveAtt = 2
        /\ tpc[u] = "moveRpc"
        /\ oldCoordinate[u] = newCoordinate[u]
        /\ FindEntityByCoordinate(warehouses, oldCoordinate[u]) # 0
        /\ statistics[UnitReachedWarehouseOp].A = 0

-----------------------------------------------------------------------------
(* A unit that is at its warehouse when the round begins *)

AtWarehouse(c) == FindEntityByCoordinate(warehouses, c) # 0

-----------------------------------------------------------------------------
(* Routing anomaly: a stationary unit with no warehouse at its coordinate *)

\* A world without a warehouse: routing leaves every unit where it is, and
\* the lookup finds nothing there.
NoWarehouses == << >>

InitAnomaly == \E cs \in Worlds : InitWith(NoWarehouses, cs, MaxFail)

\* The round loop and the tasks; MoveUnit calls can fail.
NextAnomaly ==
    \/ RunCheck
    \/ RunSpawn
    \/ RunWait
    \/ \E u \in Units : TaskStep(u)
    \/ \E u \in Units : MoveUnitFailed(u)

AnomalySpec == InitAnomaly /\ [][NextAnomaly]_vars

\* C15: a task whose MoveUnit call succeeded, whose unit did not move and
\* has no warehouse at its coordinate returns with the unit Pending and all
\* counters as they were; the unit is where it was, so that every round ends
\* the same way: no UnitReachedWarehouse attempt is ever counted, no unit
\* becomes Arrived, and every convergence check starts another round.
C15_RoutingAnomaly ==
    /\ [](/\ ~LoopLeft
          /\ statistics[UnitReachedWarehouseOp].A = 0
          /\ statistics[UnitReachedWarehouseOp].B = 0
          /\ \A u \in Units :
                /\ ~Metadata[u]
                /\ tpc[u] # "reachRpc"
                /\ runPc = "check" => trace[u].moveAtt = round
          /\ runPc = "check" /\ round < MaxRound => ENABLED RunCheck)
    /\ [][\A u \in Units :
            /\ tpc[u] = "moveRpc"
            /\ tpc'[u] # "moveRpc"
            /\ trace'[u].moveErr = trace[u].moveErr
            /\ newCoordinate[u] = oldCoordinate[u]
            /\ ~AtWarehouse(newCoordinate[u])
            => /\ tpc'[u] = "idle"
               /\ wg' = wg - 1
               /\ statistics' = statistics
               /\ Metadata' = Metadata
               /\ coord'[u] = oldCoordinate[u]]_vars

\* Two rounds have ended with the same outcome for a unit that has no
\* warehouse at its coordinate and whose MoveUnit calls all succeeded.
C15_Witness ==
    /\ runPc = "check"
    /\ round >= 2
    /\ \E u \in Units :
          /\ trace[u].moveAtt = round
          /\ trace[u].moveErr = 0
          /\ ~AtWarehouse(coord[u])
          /\ ~Metadata[u]

-----------------------------------------------------------------------------
(* The pacing update, tasks executed one at a time *)

\* No other task is between its wake-up and its return.
OneAtATime(u) == \A v \in Units \ {u} : tpc[v] \in {"idle", "sleep"}

\* The three-unit scenario under a scheduler that runs one task at a time.
NextSequential ==
    \/ RunStep
    \/ \E u \in Units : OneAtATime(u) /\ TaskStep(u)

SequentialSpec == InitScenario /\ [][NextSequential]_vars

\* The task, if any, that has stored its draw and not yet halved it.
Drawn(u) == tpc[u] \in {"test", "load"}

\* C16 as stated: the value r a task stores for the ceiling c it read is one
\* of 1..c, and the new ceiling floor(r / 2) is at most floor(c / 2).
C16_AsStated ==
    \A u \in Units :
        Drawn(u) =>
            /\ maxMoveWaitNumber \in 1..loaded[u]
            /\ maxMoveWaitNumber \div 2 <= loaded[u] \div 2

\* C16 as amended: the ceiling starts at 100; with tasks executed one at a
\* time, a task that read the ceiling c stores an r of 1..c+1, finds it to be
\* at least 1, reads it back and stores floor(r / 2): the new ceiling is at
\* most floor((c + 1) / 2).
C16_PacingUpdate ==
    /\ [](/\ round = 0 => maxMoveWaitNumber = InitialMoveWait
          /\ \A u \in Units :
                /\ Drawn(u) =>
                      /\ maxMoveWaitNumber \in 1..(loaded[u] + 1)
                      /\ maxMoveWaitNumber \div 2 <= (loaded[u] + 1) \div 2
                /\ tpc[u] = "shift" => loaded[u] = maxMoveWaitNumber)
    /\ [][\A u \in Units :
            /\ tpc[u] = "test" /\ tpc'[u] # "test" => tpc'[u] = "load"
            /\ tpc[u] = "shift" /\ tpc'[u] # "shift" =>
                  /\ tpc'[u] = "route"
                  /\ maxMoveWaitNumber' = maxMoveWaitNumber \div 2]_vars

\* The third update in a row that drew the largest value: the task read 25
\* and stored 26, which it is about to halve to 13.
C16_Witness ==
    \E u \in Units :
        /\ tpc[u] = "load"
        /\ loaded[u] = (InitialMoveWait \div 2) \div 2
        /\ maxMoveWaitNumber = loaded[u] + 1
        /\ maxMoveWaitNumber \div 2 > loaded[u] \div 2

-----------------------------------------------------------------------------
(* The pacing ceiling under concurrent tasks *)

\* C17 as stated: in every interleaving, every write of the ceiling stores a
\* value no greater than the ceiling in effect immediately before it, and
\* once the ceiling is 0 it stays 0.
C17_AsStated ==
    [][/\ maxMoveWaitNumber' <= maxMoveWaitNumber
       /\ maxMoveWaitNumber = 0 => maxMoveWaitNumber' = 0]_vars

\* A state of the race that breaks the decay: in the first round one task
\* has completed its update and left the ceiling at 0, while another, which
\* read the ceiling 100 before, is about to store its draw.
C17_StaleRead ==
    \E u, v \in Units :
        /\ round = 1
        /\ tpc[u] = "store"
        /\ loaded[u] = InitialMoveWait
        /\ tpc[v] \in {"route", "moveRpc", "reachRpc"}
        /\ maxMoveWaitNumber = 0

-----------------------------------------------------------------------------
(* How a unit becomes Arrived *)

\* C18: an arrival report is sent only by a task whose MoveUnit call has
\* just succeeded, whose unit did not move and has a warehouse at its
\* coordinate; a unit becomes Arrived only by the success of that report, in
\* the same task; hence every Arrived unit is at a coordinate that holds a
\* warehouse.
C18_ArrivedAtWarehouse ==
    /\ [](\A u \in Units :
            /\ Metadata[u] =>
                  /\ AtWarehouse(coord[u])
                  /\ trace[u].reachErr < trace[u].reachAtt
                  /\ trace[u].moveErr < trace[u].moveAtt
            /\ tpc[u] = "reachRpc" =>
                  /\ newCoordinate[u] = oldCoordinate[u]
                  /\ coord[u] = newCoordinate[u]
                  /\ AtWarehouse(newCoordinate[u])
                  /\ taskRound[u] = round)
    /\ [][\A u \in Units :
            /\ tpc[u] # "reachRpc" /\ tpc'[u] = "reachRpc" =>
                  /\ tpc[u] = "moveRpc"
                  /\ ~cancelled
                  /\ trace'[u].moveErr = trace[u].moveErr
                  /\ statistics'[MoveUnitOp] = statistics[MoveUnitOp]
            /\ ~Metadata[u] /\ Metadata'[u] =>
                  /\ tpc[u] = "reachRpc" /\ tpc'[u] = "idle"
                  /\ ~cancelled
                  /\ trace'[u].reachErr = trace[u].reachErr
                  /\ statistics' = statistics
                  /\ coord'[u] = coord[u]]_vars

\* A unit has arrived at its warehouse in the task of the second round, the
\* MoveUnit call of the first having failed; another unit's task is still
\* running.
C18_Witness ==
    \E u, v \in Units :
        /\ Metadata[u]
        /\ AtWarehouse(coord[u])
        /\ trace[u].startSteps = 1
        /\ trace[u].moveErr = 1
        /\ trace[u].arrivedRound = 2
        /\ tpc[v] # "idle"

-----------------------------------------------------------------------------
(* The counters at a round boundary *)

\* C19: whenever no task is running (at the convergence check, past the
\* loop), whatever calls failed, UnitReachedWarehouse Attempts minus Errors
\* is the number of Arrived units and UnitReachedWarehouse Attempts is at
\* most MoveUnit Attempts minus MoveUnit Errors; the counters the report
\* renders have UnitReachedWarehouse Attempts minus Errors equal to the
\* number of units.
C19_CountersAtBoundary ==
    /\ AllIdle =>
          /\ statistics[UnitReachedWarehouseOp].A
                - statistics[UnitReachedWarehouseOp].B = unitsReachedObjective
          /\ statistics[UnitReachedWarehouseOp].A <=
                statistics[MoveUnitOp].A - statistics[MoveUnitOp].B
    /\ runPc \in {"check", "report", "returned"} => AllIdle
    /\ LoopLeft =>
          statistics[UnitReachedWarehouseOp].A
              - statistics[UnitReachedWarehouseOp].B = totalDeliveryUnits

\* A round has ended in which an arrival report failed and another unit
\* arrived.
C19_Witness ==
    /\ runPc = "check"
    /\ AllIdle
    /\ round >= 1
    /\ statistics[UnitReachedWarehouseOp].B = 1
    /\ statistics[UnitReachedWarehouseOp].A = 2
    /\ unitsReachedObjective = 1

-----------------------------------------------------------------------------
(* The range of the pacing ceiling *)

\* C20 as stated: in every reachable state the ceiling is one of 0..100.
C20_AsStated == maxMoveWaitNumber \in 0..InitialMoveWait

\* The largest ceiling of a run with N units: a round starts with a ceiling
\* of at most max(100, N), and each of its at most N tasks stores a draw that
\* exceeds by at most one the value the task read.
CeilingBound ==
    Max({InitialMoveWait, totalDeliveryUnits}) + totalDeliveryUnits

\* C20 as amended: in every reachable state and every interleaving the
\* ceiling is one of 0..max(100, N) + N for N units, and it does exceed 100;
\* it is never negative, nor is any value a task has read of it, so that the
\* sleep duration is never negative and the argument of the draw, the value
\* read plus one, is at least 1.
C20_CeilingRange ==
    /\ maxMoveWaitNumber \in 0..CeilingBound
    /\ \A u \in Units :
          /\ loaded[u] \in 0..CeilingBound
          /\ tpc[u] = "store" => loaded[u] + 1 >= 1

\* Each task of the first round has read the draw its sibling stored and
\* has stored the largest draw itself: the ceiling is 100 plus the number of
\* units.
C20_Witness ==
    /\ round = 1
    /\ maxMoveWaitNumber = InitialMoveWait + totalDeliveryUnits
    /\ maxMoveWaitNumber > InitialMoveWait + 1

=============================================================================
